---------------------------- MODULE Spec2Model ----------------------------
(***************************************************************************)
(* Edge Machine: the event pipeline of src/pm/api.py (the admin job       *)
(* endpoint with its three stages, the admin event endpoint, the upsert   *)
(* and the token resolver) and the estimator of src/pm/ensemble.py.       *)
(*                                                                         *)
(* Conventions.                                                            *)
(*  - A Python value that may be None is an option: None is <<>> and a    *)
(*    value v is <<v>>.                                                    *)
(*  - Text that the code only compares or stores (slug, market id, token  *)
(*    id) is a TLA+ string; text that the code strips, lowercases or      *)
(*    searches (titles, outcome labels, keywords) is a sequence of        *)
(*    one-character strings.                                               *)
(*  - Probabilities are fixed-point integers in units of 1/Scale.         *)
(*  - The events table is a sequence of rows in created_at order; a row's *)
(*    id is its position.                                                  *)
(***************************************************************************)
EXTENDS Integers, Sequences, FiniteSets, TLC

None == <<>>
Some(v) == <<v>>

\* Python truthiness of an optional string ("" and None are falsy).
Truthy(o) == o # None /\ o[1] # ""

\* Python truthiness of an optional text or list (empty and None are falsy).
TruthySeq(o) == o # None /\ o[1] # <<>>

\* Python's `a or b` on optional strings.
OrElse(a, b) == IF Truthy(a) THEN a ELSE b

\* Python's `a or b` on optional texts or lists.
OrElseSeq(a, b) == IF TruthySeq(a) THEN a ELSE b

Min(a, b) == IF a <= b THEN a ELSE b
Max(a, b) == IF a >= b THEN a ELSE b

---------------------------------------------------------------------------
(* Text: str.strip, str.lower, the `in` substring test.                    *)

IsSpace(c) == c = " "

LowerChar(c) ==
    CASE c = "Y" -> "y" [] c = "E" -> "e" [] c = "S" -> "s" [] c = "T" -> "t"
      [] c = "R" -> "r" [] c = "U" -> "u" [] c = "N" -> "n" [] c = "O" -> "o"
      [] c = "B" -> "b" [] c = "C" -> "c" [] c = "A" -> "a" [] c = "I" -> "i"
      [] OTHER -> c

Lower(s) == [i \in 1..Len(s) |-> LowerChar(s[i])]

RECURSIVE LStrip(_)
LStrip(s) == IF s # <<>> /\ IsSpace(Head(s)) THEN LStrip(Tail(s)) ELSE s

RECURSIVE RStrip(_)
RStrip(s) ==
    IF s # <<>> /\ IsSpace(s[Len(s)]) THEN RStrip(SubSeq(s, 1, Len(s) - 1)) ELSE s

Strip(s) == RStrip(LStrip(s))

\* k in s
Contains(s, k) ==
    \E i \in 0..(Len(s) - Len(k)) : SubSeq(s, i + 1, i + Len(k)) = k

---------------------------------------------------------------------------
(* Fixed point.                                                            *)

Scale == 100 * 1000
Half == Scale \div 2


\* A Python float is a fixed-point integer or NaN; NotNum stands for any value
\* that float() rejects (a non-numeric string).
NaN == 0 - 70 * Scale
NotNum == 0 - 80 * Scale
IsNaN(v) == v = NaN

\* Comparisons with NaN are false.
Lt(a, b) == ~IsNaN(a) /\ ~IsNaN(b) /\ a < b
Gt(a, b) == ~IsNaN(a) /\ ~IsNaN(b) /\ a > b

\* Python's min(a, b) and max(a, b): the first argument unless the second beats it.
PyMin(a, b) == IF Lt(b, a) THEN b ELSE a
PyMax(a, b) == IF Gt(b, a) THEN b ELSE a

Abs(x) == IF x < 0 THEN 0 - x ELSE x

---------------------------------------------------------------------------
(* src/pm/ensemble.py: the estimator.                                      *)

vol_anchor_usd == 500000
pm_extreme_high == 94000
pm_extreme_low == 6000
cap_high == 91000
floor_low == 9000
regression_factor_pct == 20

\* _clamp(x, lo, hi)
clamp(x, lo, hi) ==
    LET v == IF x = NotNum THEN Half ELSE x
    IN  PyMax(lo, PyMin(hi, v))

\* Two faulty variants of compute_machine_p, against which the properties of
\* the estimator are tried.  The first regresses away from 0.5 instead of
\* towards it.
compute_machine_p_away(crowd_p, volume24hr) ==
    LET p_pm == clamp(crowd_p, Scale \div 1000, Scale - Scale \div 1000)
        vol  == Max(volume24hr, 0)
        anchor == vol_anchor_usd \div 1000
        p1   == IF vol >= anchor
                THEN p_pm
                ELSE (vol * p_pm + (anchor - vol) * Half) \div anchor
        p2   == IF p_pm >= pm_extreme_high THEN PyMin(p1, cap_high)
                ELSE IF p_pm <= pm_extreme_low THEN PyMax(p1, floor_low)
                ELSE p1
        deviation == Abs(p_pm - Half)
        p3   == IF deviation > (40 * Scale) \div 100
                THEN p2 - (regression_factor_pct * (Half - p2)) \div 100
                ELSE p2
    IN  clamp(p3, Scale \div 100, Scale - Scale \div 100)

\* The second neither caps the volume weight at 1 nor clamps the result.
compute_machine_p_loose(crowd_p, volume24hr) ==
    LET p_pm == clamp(crowd_p, Scale \div 1000, Scale - Scale \div 1000)
        vol  == Max(volume24hr, 0)
        anchor == vol_anchor_usd \div 1000
        p1   == (vol * p_pm + (anchor - vol) * Half) \div anchor
        p2   == IF p_pm >= pm_extreme_high THEN PyMin(p1, cap_high)
                ELSE IF p_pm <= pm_extreme_low THEN PyMax(p1, floor_low)
                ELSE p1
        deviation == Abs(p_pm - Half)
        p3   == IF deviation > (40 * Scale) \div 100
                THEN p2 + (regression_factor_pct * (Half - p2)) \div 100
                ELSE p2
    IN  p3

\* compute_machine_p(crowd_p, volume24hr); volume24hr is in thousands of
\* dollars (TLC's integers are 32-bit), and so is the anchor.
compute_machine_p(crowd_p, volume24hr) ==
    LET p_pm == clamp(crowd_p, Scale \div 1000, Scale - Scale \div 1000)
        vol  == Max(volume24hr, 0)
        anchor == vol_anchor_usd \div 1000
        \* wv = min(vol / anchor, 1); p = wv * p_pm + (1 - wv) * 0.5
        p1   == IF vol >= anchor
                THEN p_pm
                ELSE (vol * p_pm + (anchor - vol) * Half) \div anchor
        p2   == IF p_pm >= pm_extreme_high THEN PyMin(p1, cap_high)
                ELSE IF p_pm <= pm_extreme_low THEN PyMax(p1, floor_low)
                ELSE p1
        deviation == Abs(p_pm - Half)
        p3   == IF deviation > (40 * Scale) \div 100
                THEN p2 + (regression_factor_pct * (Half - p2)) \div 100
                ELSE p2
    IN  clamp(p3, Scale \div 100, Scale - Scale \div 100)

---------------------------------------------------------------------------
(* src/pm/api.py: utilities.                                               *)

\* A faulty variant of clamp01, without the upper bound.
clamp01_open(x) ==
    IF x = NotNum THEN Half
    ELSE IF Lt(x, 0) THEN 0
    ELSE x

\* clamp01(x)
clamp01(x) ==
    IF x = NotNum THEN Half
    ELSE IF Lt(x, 0) THEN 0
    ELSE IF Gt(x, Scale) THEN Scale
    ELSE x

\* machine_from_pm(p_pm): p = 0.90 * p_pm + 0.10 * 0.5, two no-op guards, clamp01.
machine_from_pm(p_pm) ==
    LET p0 == (90 * p_pm + 10 * Half) \div 100
        p1 == IF p_pm >= (94 * Scale) \div 100
              THEN PyMin(p0, (995 * Scale) \div 1000) ELSE p0
        p2 == IF p_pm <= (6 * Scale) \div 100
              THEN PyMax(p1, (5 * Scale) \div 1000) ELSE p1
    IN  clamp01(p2)

\* What SQLite stores for a Python float bound to a REAL column: NaN is
\* stored as NULL.
ToReal(v) == IF IsNaN(v) THEN None ELSE Some(v)

---------------------------------------------------------------------------
(* src/pm/api.py: the token resolver.                                      *)
(*                                                                         *)
(* A market document is a record of optional fields.  A list-valued field *)
(* holds [kind, items]: kind "dict" (a list of sub-documents), "str" (a   *)
(* list of strings) or "text" (a string where a list was expected, as a   *)
(* JSON-encoded list is).  Of the aliases the code tries in turn, the     *)
(* model keeps yesTokenId/yes_token_id, tokens/outcomes, clobTokenIds,    *)
(* outcome/name and token_id/id.                                           *)

TruthyList(o) == o # None /\ (o[1].kind = "text" \/ o[1].items # <<>>)
OrElseList(a, b) == IF TruthyList(a) THEN a ELSE b
IsList(o) == o # None /\ o[1].kind # "text"

YesLabels == { <<"y", "e", "s">>, <<"t", "r", "u", "e">> }

\* (t.get("outcome") or t.get("label") or t.get("name") or "").strip().lower()
DictLabel(t) == Lower(Strip(OrElseSeq(OrElseSeq(t.outcome, t.name), Some(<<>>))[1]))

\* for key in ("token_id", ..., "id", ...): if t.get(key): return str(t.get(key))
DictTokenId(t) == IF Truthy(t.token_id) THEN t.token_id
                  ELSE IF Truthy(t.id) THEN t.id
                  ELSE None

\* The first sub-document from position i on that is labelled yes/true and
\* carries an id gives the id.
RECURSIVE YesFromDicts(_, _)
YesFromDicts(items, i) ==
    IF i > Len(items) THEN None
    ELSE IF DictLabel(items[i]) \in YesLabels /\ DictTokenId(items[i]) # None
         THEN DictTokenId(items[i])
         ELSE YesFromDicts(items, i + 1)

\* The first position from i on whose label is yes/true gives clob_ids[i].
RECURSIVE YesFromIndex(_, _, _)
YesFromIndex(labels, clob_ids, i) ==
    IF i > Len(labels) THEN None
    ELSE IF labels[i] \in YesLabels THEN Some(clob_ids[i])
         ELSE YesFromIndex(labels, clob_ids, i + 1)

\* A faulty variant of extract_yes_token_id, which takes the first id of the id
\* list for the yes token whatever the labels say.
extract_yes_token_id_positional(m) ==
    IF Truthy(m.yesTokenId) THEN m.yesTokenId
    ELSE IF Truthy(m.yes_token_id) THEN m.yes_token_id
    ELSE IF IsList(m.clobTokenIds) /\ TruthyList(m.clobTokenIds)
    THEN Some(m.clobTokenIds[1].items[1])
    ELSE None

\* extract_yes_token_id(m)
extract_yes_token_id(m) ==
    LET tokens_or_outcomes == OrElseList(m.tokens, m.outcomes)
        clob_ids == IF TruthyList(m.clobTokenIds) THEN m.clobTokenIds ELSE None
        aligned == /\ IsList(clob_ids)
                   /\ Len(clob_ids[1].items) = Len(tokens_or_outcomes[1].items)
    IN  IF Truthy(m.yesTokenId) THEN m.yesTokenId
        ELSE IF Truthy(m.yes_token_id) THEN m.yes_token_id
        ELSE IF IsList(tokens_or_outcomes) /\ TruthyList(tokens_or_outcomes)
                /\ tokens_or_outcomes[1].kind = "dict"
        THEN LET items == tokens_or_outcomes[1].items
                 direct == YesFromDicts(items, 1)
             IN  IF direct # None THEN direct
                 ELSE IF aligned
                 THEN YesFromIndex([i \in 1..Len(items) |-> DictLabel(items[i])],
                                   clob_ids[1].items, 1)
                 ELSE None
        ELSE IF IsList(tokens_or_outcomes) /\ TruthyList(tokens_or_outcomes)
                /\ tokens_or_outcomes[1].kind = "str"
        THEN LET items == tokens_or_outcomes[1].items
             IN  IF aligned
                 THEN YesFromIndex([i \in 1..Len(items) |-> Lower(Strip(items[i]))],
                                   clob_ids[1].items, 1)
                 ELSE None
        ELSE None

---------------------------------------------------------------------------
(* Configuration (src/pm/api.py, read from the environment at import).     *)
(* The model runs with small values of the knobs.                          *)

ADMIN_TOKEN == "change-me"
DISCOVER_LIMIT == 3
DISCOVER_DETAIL_MAX == 1
HYDRATE_MAX == 2
PRICE_UPDATE_MAX == 1
JOB_TIME_BUDGET_SECS == 0

\* DISCOVER_KEYWORDS as parsed at the head of discover_markets:
\* [k.strip().lower() for k in DISCOVER_KEYWORDS.split(",") if k.strip()],
\* here for PM_DISCOVER_KEYWORDS="btc,ai".
keywords == << <<"b", "t", "c">>, <<"a", "i">> >>

\* The events table holds at most MaxRows rows in the model.
MaxRows == 2

---------------------------------------------------------------------------
(* The upstream services: what the model lets them answer.                 *)

\* A document with every field absent.
NoDoc == [question |-> None, title |-> None, slug |-> None, id |-> None,
          marketId |-> None, active |-> None, closed |-> None, endDate |-> None,
          volume |-> None, liquidity |-> None,
          yesTokenId |-> None, yes_token_id |-> None,
          tokens |-> None, outcomes |-> None, clobTokenIds |-> None]

TxtBtc == <<"b", "t", "c">>
TxtYes == <<"Y", "e", "s">>
TxtNo  == <<"N", "o">>

Outcome(label, tid) ==
    [outcome |-> Some(label), name |-> None, token_id |-> tid, id |-> None]

\* slug a, id 1, labelled token sub-documents: resolves to T1.
mA1 == [NoDoc EXCEPT !.question = Some(TxtBtc), !.slug = Some("a"), !.id = Some("1"),
          !.volume = Some(30),
          !.tokens = Some([kind |-> "dict",
                           items |-> << Outcome(TxtYes, Some("T1")),
                                        Outcome(TxtNo, Some("T2")) >>])]

\* slug b, id 1, no token information; the title needs strip().
mB1 == [NoDoc EXCEPT !.question = Some(<<" ", "b", "t", "c", " ">>), !.slug = Some("b"),
          !.id = Some("1"), !.volume = Some(20)]

\* slug b, id 2, label list aligned with an id list: resolves to its second id, T1.
mB2 == [NoDoc EXCEPT !.title = Some(<<"A", "i">>), !.slug = Some("b"),
          !.marketId = Some("2"), !.volume = Some(10), !.liquidity = Some(5),
          !.outcomes = Some([kind |-> "str", items |-> << TxtNo, <<"Y", "E", "S">> >>]),
          !.clobTokenIds = Some([kind |-> "str", items |-> << "T2", "T1" >>])]

\* no slug, id 2, a yes label aligned with an empty id: resolves to "".
mN2 == [NoDoc EXCEPT !.question = Some(TxtBtc), !.id = Some("2"), !.volume = Some(10),
          !.outcomes = Some([kind |-> "str", items |-> << TxtYes >>]),
          !.clobTokenIds = Some([kind |-> "str", items |-> << "" >>])]

\* a good score, and neither slug nor market id.
mNoId == [NoDoc EXCEPT !.question = Some(TxtBtc),
          !.volume = Some(40)]

\* slug a, id 1, past its end time once the clock has moved; JSON-encoded lists.
mEnd == [NoDoc EXCEPT !.question = Some(TxtBtc), !.slug = Some("a"), !.id = Some("1"),
          !.endDate = Some(0), !.volume = Some(50),
          !.outcomes = Some([kind |-> "text", items |-> <<>>]),
          !.clobTokenIds = Some([kind |-> "text", items |-> <<>>])]

\* filtered out: blank title, no keyword, closed, inactive.
mBlank  == [NoDoc EXCEPT !.question = Some(<<" ">>), !.slug = Some("b"), !.id = Some("2")]
mNoKey  == [NoDoc EXCEPT !.question = Some(<<"x">>), !.slug = Some("b"), !.id = Some("2")]
mClosed == [NoDoc EXCEPT !.question = Some(TxtBtc), !.slug = Some("b"), !.id = Some("2"),
              !.closed = Some(TRUE)]
mInactive == [NoDoc EXCEPT !.question = Some(TxtBtc), !.slug = Some("b"),
              !.id = Some("2"), !.active = Some(FALSE)]

\* What GET /markets may return.
Catalogs == { <<>>,
              << mA1, mB1, mB2 >>,
              << mN2, mNoId, mEnd, mB2 >>,
              << mBlank, mNoKey, mClosed, mInactive >> }

\* What GET /markets/{id} may return: no document (an error, a non-200 status),
\* or a document, here one with a resolvable token, one without.
dYes == [NoDoc EXCEPT !.yes_token_id = Some("T1")]
dBare == [NoDoc EXCEPT !.question = Some(TxtBtc)]
Details == { None, Some(dYes), Some(dBare) }

\* One answer of the quoting service to GET /midpoint or GET /price: the
\* request fails (timeout, error status, malformed JSON), or a JSON object
\* with optional midpoint, price and data.{midpoint, price}.
NoQuote == [fails |-> FALSE, midpoint |-> None, price |-> None, data |-> None]
qFail   == [NoQuote EXCEPT !.fails = TRUE]
qHigh   == [NoQuote EXCEPT !.price = Some(5 * Scale)]
qNeg    == [NoQuote EXCEPT !.midpoint = Some(0 - Scale)]
qNaN    == [NoQuote EXCEPT !.midpoint = Some(NaN)]
qText   == [NoQuote EXCEPT !.price = Some(NotNum)]
qEmpty  == NoQuote
qNested == [NoQuote EXCEPT !.midpoint = Some(0),
                           !.data = Some([midpoint |-> None, price |-> Some(0)])]
Quotes == { qFail, qHigh, qNeg, qNaN, qText, qEmpty, qNested }

\* clob_midpoint makes up to 6 requests (3 per endpoint).  A scenario gives the
\* service's answer to each: the same answer every time, or /midpoint failing
\* and /price answering.
ClobAttempts == 6
Scenarios == { [k \in 1..ClobAttempts |-> q] : q \in Quotes }
             \cup { [k \in 1..ClobAttempts |-> IF k <= 3 THEN qFail ELSE qHigh] }

\* Python truthiness of an optional number (0 and None are falsy).
TruthyNum(o) == o # None /\ o[1] # 0
OrElseNum(a, b) == IF TruthyNum(a) THEN a ELSE b

\* clob_midpoint(token_id) from attempt k on: [p |-> the optional float it
\* returns, calls |-> the requests made].
RECURSIVE clob_from(_, _)
clob_from(answers, k) ==
    IF k > Len(answers) THEN [p |-> None, calls |-> Len(answers)]
    ELSE LET data == answers[k]
             mp0 == OrElseNum(data.midpoint, data.price)
             mp  == IF mp0 = None /\ data.data # None
                    THEN OrElseNum(data.data[1].midpoint, data.data[1].price)
                    ELSE mp0
         IN  IF data.fails THEN clob_from(answers, k + 1)
             ELSE IF mp = None THEN [p |-> None, calls |-> k]
             ELSE IF mp[1] = NotNum THEN clob_from(answers, k + 1)
             ELSE [p |-> mp, calls |-> k]

clob_midpoint(answers) == clob_from(answers, 1)

---------------------------------------------------------------------------
(* The events table.                                                       *)

Row(title, slug, mid, tok) ==
    [title |-> title, slug |-> slug, gamma_market_id |-> mid, yes_token_id |-> tok,
     latest_pm_p |-> None, latest_machine_p |-> None]

\* SELECT ... WHERE <col> = ? ... fetchone(): the first matching row in rowid
\* order, 0 when there is none.
RECURSIVE FirstWith(_, _, _, _)
FirstWith(tbl, col, v, i) ==
    IF i > Len(tbl) THEN 0
    ELSE IF tbl[i][col] = v THEN i
    ELSE FirstWith(tbl, col, v, i + 1)

\* The row upsert_event_in_conn matches: by slug, else by gamma_market_id.
MatchRow(tbl, slug, gamma_market_id) ==
    LET bySlug == IF Truthy(slug) THEN FirstWith(tbl, "slug", slug, 1) ELSE 0
    IN  IF bySlug # 0 THEN bySlug
        ELSE IF Truthy(gamma_market_id)
             THEN FirstWith(tbl, "gamma_market_id", gamma_market_id, 1)
             ELSE 0

\* A faulty variant of upsert_event_in_conn: the update always sets
\* yes_token_id.
upsert_always_sets(tbl, title, slug, gamma_market_id, yes_token_id) ==
    LET row == MatchRow(tbl, slug, gamma_market_id)
    IN  IF row # 0
        THEN [tbl EXCEPT ![row].title = title, ![row].slug = slug,
                         ![row].gamma_market_id = gamma_market_id,
                         ![row].yes_token_id = yes_token_id]
        ELSE Append(tbl, Row(title, slug, gamma_market_id, yes_token_id))

\* upsert_event_in_conn(conn, title, slug, gamma_market_id, yes_token_id)
upsert_event_in_conn(tbl, title, slug, gamma_market_id, yes_token_id) ==
    LET row == MatchRow(tbl, slug, gamma_market_id)
    IN  IF row # 0
        THEN IF Truthy(yes_token_id)
             THEN [tbl EXCEPT ![row].title = title, ![row].slug = slug,
                              ![row].gamma_market_id = gamma_market_id,
                              ![row].yes_token_id = yes_token_id]
             ELSE [tbl EXCEPT ![row].title = title, ![row].slug = slug,
                              ![row].gamma_market_id = gamma_market_id]
        ELSE Append(tbl, Row(title, slug, gamma_market_id, yes_token_id))

\* hydrate_tokens: (yes_token_id IS NULL OR yes_token_id = '') AND
\* gamma_market_id IS NOT NULL
NeedsToken(r) == (r.yes_token_id = None \/ r.yes_token_id = Some(""))
                 /\ r.gamma_market_id # None

\* The WHERE clauses of the three stage queries.
Keep(where, r) ==
    CASE where = "needs_token" -> NeedsToken(r)
      [] where = "has_price" -> r.latest_pm_p # None
      [] OTHER -> TRUE

\* SELECT ... WHERE <where> ORDER BY created_at DESC LIMIT n, from row i
\* downwards: the ids of the newest n rows that satisfy it, newest first.
RECURSIVE SelectDesc(_, _, _, _)
SelectDesc(tbl, where, n, i) ==
    IF i = 0 \/ n = 0 THEN <<>>
    ELSE IF Keep(where, tbl[i]) THEN <<i>> \o SelectDesc(tbl, where, n - 1, i - 1)
    ELSE SelectDesc(tbl, where, n, i - 1)

---------------------------------------------------------------------------
(* discover_markets: the per-market computations.                          *)

\* (m.get("question") or m.get("title") or "").strip()
TitleOf(m) == Strip(OrElseSeq(OrElseSeq(m.question, m.title), Some(<<>>))[1])

\* is_current(m) at time t
is_current(m, t) ==
    /\ m.active # Some(FALSE)
    /\ m.closed # Some(TRUE)
    /\ ~(m.endDate # None /\ m.endDate[1] < t)

\* any(k in tl for k in keywords)
MatchesKeyword(title) ==
    \E j \in 1..Len(keywords) : Contains(Lower(title), keywords[j])

\* score = vol + 0.1 * liq, in tenths.
Score(m) == 10 * OrElseNum(m.volume, Some(0))[1] + OrElseNum(m.liquidity, Some(0))[1]

\* mid = m.get("id") or m.get("marketId") ...; str(mid) if mid else None
MarketId(m) == LET mid == OrElse(m.id, m.marketId)
               IN  IF Truthy(mid) THEN mid ELSE None

\* candidates.sort(key=score, reverse=True): stable, best score first.
RECURSIVE InsertDesc(_, _)
InsertDesc(sorted, c) ==
    IF sorted = <<>> THEN <<c>>
    ELSE IF Head(sorted).score >= c.score
         THEN <<Head(sorted)>> \o InsertDesc(Tail(sorted), c)
         ELSE <<c>> \o sorted

RECURSIVE SortDesc(_)
SortDesc(cs) ==
    IF cs = <<>> THEN <<>>
    ELSE InsertDesc(SortDesc(SubSeq(cs, 1, Len(cs) - 1)), cs[Len(cs)])

\* detail_cache lookup: the cached document of a market id, if any.
Cached(cache, mid) == IF \E c \in cache : c[1] = mid
                      THEN Some((CHOOSE c \in cache : c[1] = mid)[2])
                      ELSE None

---------------------------------------------------------------------------
(* The state.                                                              *)

VARIABLES
    db,        \* the committed events table
    now,       \* the wall clock
    inv,       \* the job invocation each worker is serving, with its locals
    hist,      \* repeated discovery: the upstream data and the row counts
    est,       \* the estimator on its own: its arguments and its result
    runner,    \* scripts/run_job_once.py: the job runner's retry loop
    ext        \* the token resolver on its own: its argument and its result

vars == <<db, now, inv, hist, est, runner, ext>>

\* Workers that serve POST /v1/admin/jobs/run: the endpoint is a plain def,
\* which the framework runs on a pool of threads.  Serial is the one at work
\* when requests come one at a time, Pool the two at work when two requests
\* overlap, and Procs the workers of the behaviour at hand.
Serial == {1}
Pool == {1, 2}
Procs == DOMAIN inv

\* The clock stops one tick past the end of mEnd, the only document with an end
\* time: later times are told apart by nothing.
LastTime == mEnd.endDate[1] + 1

JobNames == {"discover_markets", "hydrate_tokens", "update_prices", "forecast_machine"}
KnownJobs == {"discover_markets", "hydrate_tokens", "update_prices"}
Tokens == {None, Some("wrong"), Some(ADMIN_TOKEN)}
AdminTitles == { <<" ", "b", "t", "c">> }

\* A faulty variant of check_admin, which lets every token in.
check_admin_open(x_admin_token) == TRUE

\* check_admin(x_admin_token): TRUE when it does not raise.
check_admin(x_admin_token) == Truthy(x_admin_token) /\ x_admin_token[1] = ADMIN_TOKEN

\* A worker between requests.  status is the HTTP status of the last response
\* (0 before any); called tells whether the invocation has sent a request to an
\* upstream service; partial, whether a budget check has cut a loop short; the
\* rest are the locals of the stages.
Fresh == [pc |-> "idle", job |-> "", token |-> None, status |-> 0,
          elapsed |-> 0, called |-> FALSE, partial |-> FALSE,
          markets |-> <<>>, cands |-> <<>>, rows |-> <<>>, i |-> 0,
          cache |-> {}, detail_calls |-> 0, used |-> 0, tokened |-> 0,
          attempted |-> 0, hydrated |-> 0,
          snap |-> 0, fore |-> 0, skipped_no_token |-> 0, skipped_no_pm |-> 0,
          answers |-> <<>>, tx |-> None, dirty |-> FALSE]

\* The response is sent: the locals are gone; the request and the status stay.
\* (The summary a stage returns is made of its counters as they stand when its
\* last loop ends.)
Done(v, status) ==
    [Fresh EXCEPT !.pc = "done", !.job = v.job, !.token = v.token, !.status = status]

TypeOK ==
    /\ Len(db) <= MaxRows
    /\ now \in 0..LastTime
    /\ \A p \in Procs : inv[p].elapsed \in 0..(JOB_TIME_BUDGET_SECS + 1)

\* hist, est, runner and ext are used by the specifications of repeated
\* discovery, of the estimator, of the job runner and of the token resolver
\* (below); the service itself leaves them as they are.
NoHist == [listing |-> <<>>, detail |-> None, rows |-> <<>>]
NoEst == [crowd_p |-> 0, volume24hr |-> 0, machine_p |-> None]
NoRunner == [pc |-> "off", job |-> "", token |-> None, attempt |-> 0, posts |-> 0]
NoExt == [m |-> NoDoc, yes_tid |-> None, done |-> FALSE]

Init ==
    /\ db = <<>>
    /\ now = 0
    /\ inv = [p \in Serial |-> Fresh]
    /\ hist = NoHist
    /\ est = NoEst
    /\ runner = NoRunner
    /\ ext = NoExt

\* A faulty variant of the budget check, which never finds the budget spent.
Over_never(p) == FALSE

\* time.time() - t0 > JOB_TIME_BUDGET_SECS
Over(p) == inv[p].elapsed > JOB_TIME_BUDGET_SECS

Running(p) == inv[p].pc \notin {"idle", "done"}

\* The table as worker p's connection sees it: the committed table, or its
\* open transaction's.
Tbl(p) == IF inv[p].tx = None THEN db ELSE inv[p].tx[1]

\* SQLite's locks: one writer at a time, and no commit of written rows while
\* another connection is inside a transaction.
CanWrite(p) == \A q \in Procs \ {p} : ~inv[q].dirty
CanCommit(p) == ~inv[p].dirty \/ \A q \in Procs \ {p} : inv[q].tx = None

Set(p, v) == inv' = [inv EXCEPT ![p] = v]

\* The rows a stage query returns: each id with the column the stage reads.
Selected(tbl, where, n, col) ==
    LET ids == SelectDesc(tbl, where, n, Len(tbl))
    IN  [k \in 1..Len(ids) |-> [id |-> ids[k], v |-> tbl[ids[k]][col]]]

---------------------------------------------------------------------------
(* POST /v1/admin/jobs/run: admission.                                     *)

\* check_admin raises 401, or the job name is not known: 400.
Reject(p) ==
    /\ ~Running(p)
    /\ \E job \in JobNames, tok \in Tokens :
         /\ ~check_admin(tok) \/ job \notin KnownJobs
         /\ Set(p, [Fresh EXCEPT !.pc = "done", !.job = job, !.token = tok,
                      !.status = IF ~check_admin(tok) THEN 401 ELSE 400])
    /\ UNCHANGED <<db, now>>

Accepted(p, job, tok) ==
    /\ ~Running(p)
    /\ check_admin(tok)
    /\ job \in KnownJobs

---------------------------------------------------------------------------
(* discover_markets.                                                       *)

\* The request is admitted; t0 is taken and GET /markets is sent.
StartDiscover(p) ==
    /\ \E tok \in Tokens :
         /\ Accepted(p, "discover_markets", tok)
         /\ Set(p, [Fresh EXCEPT !.pc = "fetch", !.job = "discover_markets",
                      !.token = tok, !.called = TRUE])
    /\ UNCHANGED <<db, now>>

\* gamma_get_markets returns a listing, one of catalogs.
ListingFrom(p, catalogs) ==
    /\ inv[p].pc = "fetch"
    /\ \E markets \in catalogs :
         Set(p, [inv[p] EXCEPT !.pc = "filter", !.markets = markets, !.i = 1])
    /\ UNCHANGED <<db, now>>

ListingOk(p) == ListingFrom(p, Catalogs)

\* gamma_get_markets raises (timeout, error status, malformed JSON); nothing
\* catches it and the request ends with a 500.
ListingFail(p) ==
    /\ inv[p].pc = "fetch"
    /\ Set(p, Done(inv[p], 500))
    /\ UNCHANGED <<db, now>>

\* One pass of the filter loop.
FilterItem(p) ==
    LET v == inv[p]
        m == v.markets[v.i]
        title == TitleOf(m)
        keep == title # <<>> /\ is_current(m, now) /\ MatchesKeyword(title)
    IN  /\ v.pc = "filter"
        /\ v.i <= Len(v.markets)
        /\ ~Over(p)
        /\ Set(p, [v EXCEPT !.i = v.i + 1,
                     !.cands = IF keep THEN Append(v.cands, [score |-> Score(m), m |-> m])
                               ELSE v.cands])
        /\ UNCHANGED <<db, now>>

\* candidates[:DISCOVER_LIMIT]
Top(cands) == SubSeq(cands, 1, Min(Len(cands), DISCOVER_LIMIT))

\* The filter loop ends (the listing is exhausted, or the budget check breaks);
\* the candidates are sorted and the best DISCOVER_LIMIT kept, and BEGIN opens
\* the transaction.
FilterEnd(p) ==
    LET v == inv[p]
    IN  /\ v.pc = "filter"
        /\ v.i > Len(v.markets) \/ Over(p)
        /\ Set(p, [v EXCEPT !.pc = "upsert", !.i = 1, !.markets = <<>>,
                     !.partial = v.i <= Len(v.markets),
                     !.cands = Top(SortDesc(v.cands))])
        /\ UNCHANGED <<db, now>>

\* The tail of one pass of the upsert loop: the upsert and the counters.
Upserted(p, v, m, yes_tid) ==
    LET tbl == upsert_event_in_conn(Tbl(p), TitleOf(m), m.slug, MarketId(m), yes_tid)
    IN  /\ CanWrite(p)
        /\ Len(tbl) <= MaxRows
        /\ Set(p, [v EXCEPT !.pc = "upsert", !.i = inv[p].i + 1,
                     !.tx = Some(tbl), !.dirty = TRUE,
                     !.used = inv[p].used + 1,
                     !.tokened = inv[p].tokened + (IF Truthy(yes_tid) THEN 1 ELSE 0)])

\* One pass of the upsert loop, up to the detail request if it makes one.
UpsertItem(p) ==
    LET v == inv[p]
        m == v.cands[v.i].m
        gamma_market_id == MarketId(m)
        yes_tid == extract_yes_token_id(m)
        detail == Cached(v.cache, gamma_market_id[1])
    IN  /\ v.pc = "upsert"
        /\ v.i <= Len(v.cands)
        /\ ~Over(p)
        /\ IF ~Truthy(gamma_market_id)
           THEN Set(p, [v EXCEPT !.i = v.i + 1])
           ELSE IF ~Truthy(yes_tid) /\ v.detail_calls < DISCOVER_DETAIL_MAX
           THEN IF detail # None
                THEN Upserted(p, v, m, extract_yes_token_id(detail[1]))
                ELSE Set(p, [v EXCEPT !.pc = "detail", !.called = TRUE])
           ELSE Upserted(p, v, m, yes_tid)
        /\ UNCHANGED <<db, now>>

\* gamma_get_detail answers, one of details; the pass goes on to the upsert.
DetailFrom(p, details) ==
    LET v == inv[p]
        m == v.cands[v.i].m
    IN  /\ v.pc = "detail"
        /\ \E detail \in details :
             Upserted(p,
                      [v EXCEPT !.detail_calls = v.detail_calls + 1,
                                !.cache = IF detail # None
                                          THEN v.cache \cup {<<MarketId(m)[1], detail[1]>>}
                                          ELSE v.cache],
                      m,
                      IF detail # None THEN extract_yes_token_id(detail[1])
                      ELSE extract_yes_token_id(m))
        /\ UNCHANGED <<db, now>>

DetailResp(p) == DetailFrom(p, Details)

\* The upsert loop ends (exhausted, or the budget check breaks): commit, and
\* the summary is returned.
UpsertEnd(p) ==
    LET v == inv[p]
    IN  /\ v.pc = "upsert"
        /\ v.i > Len(v.cands) \/ Over(p)
        /\ CanCommit(p)
        /\ db' = Tbl(p)
        /\ Set(p, Done([v EXCEPT !.partial = v.partial \/ v.i <= Len(v.cands)], 200))
        /\ UNCHANGED now

---------------------------------------------------------------------------
(* hydrate_tokens.                                                         *)

\* The request is admitted; the rows lacking a token are selected.
StartHydrate(p) ==
    /\ \E tok \in Tokens :
         /\ Accepted(p, "hydrate_tokens", tok)
         /\ Set(p, [Fresh EXCEPT !.pc = "hyd", !.job = "hydrate_tokens", !.token = tok,
                      !.i = 1,
                      !.rows = Selected(db, "needs_token", HYDRATE_MAX, "gamma_market_id")])
    /\ UNCHANGED <<db, now>>

\* The tail of one pass of the hydrate loop, with the detail document in hand.
Hydrated(p, v, detail) ==
    LET yes_tid == extract_yes_token_id(detail[1])
        id == inv[p].rows[inv[p].i].id
    IN  IF detail = None \/ ~Truthy(yes_tid)
        THEN Set(p, [v EXCEPT !.pc = "hyd", !.i = inv[p].i + 1])
        ELSE /\ CanWrite(p)
             /\ Set(p, [v EXCEPT !.pc = "hyd", !.i = inv[p].i + 1,
                          !.tx = Some([Tbl(p) EXCEPT ![id].yes_token_id = yes_tid]),
                          !.dirty = TRUE,
                          !.hydrated = inv[p].hydrated + 1])

\* One pass of the hydrate loop, up to the detail request if it makes one.
HydrateItem(p) ==
    LET v == inv[p]
        mid == v.rows[v.i].v[1]
        detail == Cached(v.cache, mid)
        w == [v EXCEPT !.attempted = v.attempted + 1]
    IN  /\ v.pc = "hyd"
        /\ v.i <= Len(v.rows)
        /\ ~Over(p)
        /\ IF detail # None
           THEN Hydrated(p, w, detail)
           ELSE Set(p, [w EXCEPT !.pc = "hyd_detail", !.called = TRUE])
        /\ UNCHANGED <<db, now>>

\* gamma_get_detail answers.
HydrateDetail(p) ==
    LET v == inv[p]
        mid == v.rows[v.i].v[1]
    IN  /\ v.pc = "hyd_detail"
        /\ \E detail \in Details :
             Hydrated(p,
                      [v EXCEPT !.cache = IF detail # None
                                          THEN v.cache \cup {<<mid, detail[1]>>}
                                          ELSE v.cache],
                      detail)
        /\ UNCHANGED <<db, now>>

\* The loop ends: commit, and the summary is returned.
HydrateEnd(p) ==
    LET v == inv[p]
    IN  /\ v.pc = "hyd"
        /\ v.i > Len(v.rows) \/ Over(p)
        /\ CanCommit(p)
        /\ db' = Tbl(p)
        /\ Set(p, Done([v EXCEPT !.partial = v.i <= Len(v.rows)], 200))
        /\ UNCHANGED now

---------------------------------------------------------------------------
(* update_prices.                                                          *)

\* The request is admitted; the newest rows are selected.
StartUpdate(p) ==
    /\ \E tok \in Tokens :
         /\ Accepted(p, "update_prices", tok)
         /\ Set(p, [Fresh EXCEPT !.pc = "snap", !.job = "update_prices", !.token = tok,
                      !.i = 1,
                      !.rows = Selected(db, "all", PRICE_UPDATE_MAX, "yes_token_id")])
    /\ UNCHANGED <<db, now>>

\* One pass of the snapshot loop, up to the price lookup if it makes one.
SnapItem(p) ==
    LET v == inv[p]
        tid == v.rows[v.i].v
    IN  /\ v.pc = "snap"
        /\ v.i <= Len(v.rows)
        /\ ~Over(p)
        /\ IF ~Truthy(tid)
           THEN Set(p, [v EXCEPT !.i = v.i + 1,
                          !.skipped_no_token = v.skipped_no_token + 1])
           ELSE Set(p, [v EXCEPT !.pc = "price", !.called = TRUE])
        /\ UNCHANGED <<db, now>>

\* The quoting service answers the requests clob_midpoint makes.
ClobAnswers(p) ==
    /\ inv[p].pc = "price"
    /\ \E answers \in Scenarios :
         Set(p, [inv[p] EXCEPT !.pc = "quoted", !.answers = answers])
    /\ UNCHANGED <<db, now>>

\* clob_midpoint returns; the price, if any, is clamped and written.
PriceResp(p) ==
    LET v == inv[p]
        id == v.rows[v.i].id
    IN  /\ v.pc = "quoted"
        /\ LET r == clob_midpoint(v.answers)
                 w == [v EXCEPT !.pc = "snap", !.i = v.i + 1, !.answers = <<>>]
             IN  IF r.p = None
                 THEN Set(p, w)
                 ELSE /\ CanWrite(p)
                      /\ Set(p, [w EXCEPT
                                   !.tx = Some([Tbl(p) EXCEPT ![id].latest_pm_p =
                                                   ToReal(clamp01(r.p[1]))]),
                                   !.dirty = TRUE,
                                   !.snap = v.snap + 1])
        /\ UNCHANGED <<db, now>>

\* The snapshot loop ends: commit; the rows with a price are selected.
SnapEnd(p) ==
    LET v == inv[p]
    IN  /\ v.pc = "snap"
        /\ v.i > Len(v.rows) \/ Over(p)
        /\ CanCommit(p)
        /\ db' = Tbl(p)
        /\ Set(p, [v EXCEPT !.pc = "fore", !.i = 1, !.tx = None, !.dirty = FALSE,
                     !.partial = v.i <= Len(v.rows),
                     !.rows = Selected(Tbl(p), "has_price", PRICE_UPDATE_MAX,
                                       "latest_pm_p")])
        /\ UNCHANGED now

\* One pass of the forecast loop.
ForeItem(p) ==
    LET v == inv[p]
        id == v.rows[v.i].id
        p_pm == v.rows[v.i].v[1]
        p_m == machine_from_pm(p_pm)
    IN  /\ v.pc = "fore"
        /\ v.i <= Len(v.rows)
        /\ ~Over(p)
        /\ CanWrite(p)
        /\ Set(p, [v EXCEPT !.i = v.i + 1,
                     !.tx = Some([Tbl(p) EXCEPT ![id].latest_machine_p = ToReal(p_m)]),
                     !.dirty = TRUE,
                     !.fore = v.fore + 1])
        /\ UNCHANGED <<db, now>>

\* The forecast loop ends: commit, and the summary is returned.
ForeEnd(p) ==
    LET v == inv[p]
    IN  /\ v.pc = "fore"
        /\ v.i > Len(v.rows) \/ Over(p)
        /\ CanCommit(p)
        /\ db' = Tbl(p)
        /\ Set(p, Done([v EXCEPT !.partial = v.partial \/ v.i <= Len(v.rows)], 200))
        /\ UNCHANGED now

---------------------------------------------------------------------------
(* POST /v1/admin/events, and the environment.                             *)

\* admin_create_event with a valid token inserts a bare row and commits.  (With
\* an invalid token check_admin raises and nothing changes.)
AdminCreate ==
    /\ \E tok \in Tokens, title \in AdminTitles :
         /\ check_admin(tok)
         /\ db' = Append(db, Row(Strip(title), None, None, None))
    /\ Len(db) < MaxRows
    /\ \A q \in Procs : inv[q].tx = None
    /\ UNCHANGED <<now, inv>>

\* A second passes: the clock moves, and so does the elapsed time of every
\* running invocation (beyond the budget it makes no difference by how much).
Tick ==
    /\ now' = Min(now + 1, LastTime)
    /\ inv' = [p \in Procs |->
                 IF Running(p)
                 THEN [inv[p] EXCEPT !.elapsed = Min(@ + 1, JOB_TIME_BUDGET_SECS + 1)]
                 ELSE inv[p]]
    /\ now' # now \/ inv' # inv
    /\ UNCHANGED db

\* The service: every step leaves hist, est, runner and ext alone.
Quiet == UNCHANGED <<hist, est, runner, ext>>

Next ==
    \/ \E p \in Serial : Reject(p) /\ Quiet
    \/ \E p \in Serial : StartDiscover(p) /\ Quiet
    \/ \E p \in Serial : ListingOk(p) /\ Quiet
    \/ \E p \in Serial : ListingFail(p) /\ Quiet
    \/ \E p \in Serial : FilterItem(p) /\ Quiet
    \/ \E p \in Serial : FilterEnd(p) /\ Quiet
    \/ \E p \in Serial : UpsertItem(p) /\ Quiet
    \/ \E p \in Serial : DetailResp(p) /\ Quiet
    \/ \E p \in Serial : UpsertEnd(p) /\ Quiet
    \/ \E p \in Serial : StartHydrate(p) /\ Quiet
    \/ \E p \in Serial : HydrateItem(p) /\ Quiet
    \/ \E p \in Serial : HydrateDetail(p) /\ Quiet
    \/ \E p \in Serial : HydrateEnd(p) /\ Quiet
    \/ \E p \in Serial : StartUpdate(p) /\ Quiet
    \/ \E p \in Serial : SnapItem(p) /\ Quiet
    \/ \E p \in Serial : ClobAnswers(p) /\ Quiet
    \/ \E p \in Serial : PriceResp(p) /\ Quiet
    \/ \E p \in Serial : SnapEnd(p) /\ Quiet
    \/ \E p \in Serial : ForeItem(p) /\ Quiet
    \/ \E p \in Serial : ForeEnd(p) /\ Quiet
    \/ AdminCreate /\ Quiet
    \/ Tick /\ Quiet

Spec == Init /\ [][Next]_vars

---------------------------------------------------------------------------
(* discover_markets run again and again against upstream data that does    *)
(* not change: the listing and the detail document are fixed at the start,  *)
(* nothing else touches the table, and the clock stands still (so no run is *)
(* cut short by the budget and no market ends between two runs).  hist.rows *)
(* records the number of rows after each run.                               *)

\* Number of runs in a row.
Reruns == 2

InitRerun ==
    /\ db = <<>>
    /\ now = 0
    /\ inv = [p \in Serial |-> Fresh]
    /\ hist \in [listing : Catalogs, detail : Details, rows : {<<>>}]
    /\ est = NoEst
    /\ runner = NoRunner
    /\ ext = NoExt

RerunStart(p) ==
    /\ Len(hist.rows) < Reruns
    /\ StartDiscover(p)
    /\ Quiet

RerunListing(p) == ListingFrom(p, {hist.listing}) /\ Quiet

RerunDetail(p) == DetailFrom(p, {hist.detail}) /\ Quiet

RerunEnd(p) ==
    /\ UpsertEnd(p)
    /\ hist' = [hist EXCEPT !.rows = Append(@, Len(db'))]
    /\ UNCHANGED <<est, runner, ext>>

NextRerun ==
    \/ \E p \in Serial : RerunStart(p)
    \/ \E p \in Serial : RerunListing(p)
    \/ \E p \in Serial : FilterItem(p) /\ Quiet
    \/ \E p \in Serial : FilterEnd(p) /\ Quiet
    \/ \E p \in Serial : UpsertItem(p) /\ Quiet
    \/ \E p \in Serial : RerunDetail(p)
    \/ \E p \in Serial : RerunEnd(p)

SpecRerun == InitRerun /\ [][NextRerun]_vars

---------------------------------------------------------------------------
(* The estimator on its own: compute_machine_p applied once to arguments   *)
(* drawn from a grid.  crowd_p runs over the multiples of 0.001 from        *)
(* -CrowdBelow/1000 to CrowdAbove/1000, volume24hr over the multiples of    *)
(* 50,000 dollars up to VolSteps of them.                                   *)

CrowdBelow == 50
CrowdAbove == 1050
VolSteps == 20

CrowdGrid == { k * (Scale \div 1000) : k \in (0 - CrowdBelow)..CrowdAbove }
VolGrid == { 50 * k : k \in 0..VolSteps }

InitAdjust ==
    /\ db = <<>>
    /\ now = 0
    /\ inv = [p \in Serial |-> Fresh]
    /\ hist = NoHist
    /\ est \in [crowd_p : CrowdGrid, volume24hr : VolGrid, machine_p : {None}]
    /\ runner = NoRunner
    /\ ext = NoExt

Estimate ==
    /\ est.machine_p = None
    /\ est' = [est EXCEPT !.machine_p = Some(compute_machine_p(est.crowd_p, est.volume24hr))]
    /\ UNCHANGED <<db, now, inv, hist, runner, ext>>

NextAdjust == Estimate

SpecAdjust == InitAdjust /\ [][NextAdjust]_vars

---------------------------------------------------------------------------
(* Properties.                                                             *)

\* Row i of old is still there in new, for every i.
RowsStay(old, new) == Len(old) <= Len(new)

\* No token is erased from old to new: a row with a non-null yes_token_id
\* still has one, and a row with a non-empty one still has a non-empty one.
KeepsTokens(old, new) ==
    /\ RowsStay(old, new)
    /\ \A i \in 1..Len(old) :
         /\ old[i].yes_token_id # None => new[i].yes_token_id # None
         /\ Truthy(old[i].yes_token_id) => Truthy(new[i].yes_token_id)

C2_NaturalKeyUnique ==
    \A i, j \in 1..Len(db) :
        i # j =>
            /\ db[i].slug # None => db[i].slug # db[j].slug
            /\ db[i].gamma_market_id # None
                   => db[i].gamma_market_id # db[j].gamma_market_id

\* C3, as claimed: when discover_markets has run twice in a row against the
\* same upstream data, the table has as many rows after the second run as
\* after the first.
C3_RerunSameCount ==
    Len(hist.rows) >= 2 => hist.rows[2] = hist.rows[1]

\* C4, as claimed: every latest_machine_p the forecast loop writes is
\* compute_machine_p of the event's latest_pm_p, for some 24-hour volume.
C4_ForecastIsEstimator ==
    [][ \A p \in Procs :
          (inv[p].pc = "fore" /\ inv'[p].pc = "fore" /\ inv'[p].i = inv[p].i + 1)
          => LET row == inv'[p].tx[1][inv[p].rows[inv[p].i].id]
             IN  /\ row.latest_pm_p # None
                 /\ \E vol \in VolGrid :
                      row.latest_machine_p
                          = Some(compute_machine_p(row.latest_pm_p[1], vol)) ]_vars

\* C5: for every crowd_p >= 0.94 and every volume24hr >= 0 compute_machine_p
\* returns at most 0.91, and for every crowd_p <= 0.06 and every
\* volume24hr >= 0 it returns at least 0.09.
C5_CapHolds ==
    (est.machine_p # None /\ est.volume24hr >= 0) =>
        /\ est.crowd_p >= (94 * Scale) \div 100
               => est.machine_p[1] <= (91 * Scale) \div 100
        /\ est.crowd_p <= (6 * Scale) \div 100
               => est.machine_p[1] >= (9 * Scale) \div 100

\* C5's case: compute_machine_p(0.97, 1,000,000) has been computed, and is 0.828.
C5_Witness ==
    /\ est.crowd_p = (97 * Scale) \div 100
    /\ est.volume24hr = 1000
    /\ est.machine_p = Some((828 * Scale) \div 1000)

\* C6: for every crowd_p in [0, 1] and every volume24hr >= 0
\* compute_machine_p returns a value in [0.01, 0.99].
C6_OutputInRange ==
    (/\ est.machine_p # None
     /\ est.crowd_p >= 0 /\ est.crowd_p <= Scale
     /\ est.volume24hr >= 0) =>
        /\ est.machine_p[1] >= Scale \div 100
        /\ est.machine_p[1] <= Scale - Scale \div 100

\* C6's case: compute_machine_p(0.9, 1,000,000), the largest value it returns
\* for a crowd_p in [0, 1], has been computed.
C6_Witness ==
    /\ est.crowd_p = (90 * Scale) \div 100
    /\ est.volume24hr = 1000
    /\ est.machine_p = Some((90 * Scale) \div 100)

\* Every latest_pm_p of tbl is NULL or in [0, 1].
PricesInUnit(tbl) ==
    \A i \in 1..Len(tbl) :
        \/ tbl[i].latest_pm_p = None
        \/ /\ ~IsNaN(tbl[i].latest_pm_p[1])
           /\ tbl[i].latest_pm_p[1] >= 0
           /\ tbl[i].latest_pm_p[1] <= Scale

\* C7: in every reachable state every event's latest_pm_p is NULL or in
\* [0, 1], in the committed table and in every open transaction, whatever the
\* quoting service answers.
C7_PriceInUnit ==
    /\ PricesInUnit(db)
    /\ \A p \in Procs : PricesInUnit(Tbl(p))

\* C7's case: a committed event has latest_pm_p = 1.0, which only the price 5
\* of the quoting service produces.
C7_Witness ==
    \E i \in 1..Len(db) : db[i].latest_pm_p = Some(Scale)

\* Some answer carries a midpoint or price that is not a number.
Unparseable(answers) ==
    \E k \in 1..Len(answers) :
        answers[k].midpoint = Some(NotNum) \/ answers[k].price = Some(NotNum)

\* C8, as claimed: when the quoting service has answered a price lookup with a
\* price that cannot be parsed as a number, the snapshot loop writes 0.5 as
\* the event's latest_pm_p.
C8_UnparseableIsHalf ==
    [][ \A p \in Procs :
          (inv[p].pc = "quoted" /\ inv'[p].pc = "snap" /\ Unparseable(inv[p].answers))
          => /\ inv'[p].tx # None
             /\ inv'[p].tx[1][inv[p].rows[inv[p].i].id].latest_pm_p = Some(Half) ]_vars

\* C9, as claimed: in every reachable state an event with a non-null
\* latest_machine_p has a non-null latest_pm_p.
C9_MachineNeedsPrice ==
    \A i \in 1..Len(db) :
        db[i].latest_machine_p # None => db[i].latest_pm_p # None

\* The request a worker has taken presents a missing or wrong admin token, or
\* names a job that is not one of the stages.
BadRequest(v) ==
    \/ v.token = None
    \/ v.token # Some(ADMIN_TOKEN)
    \/ v.job \notin KnownJobs

\* C10: when a worker takes a job request with a missing or wrong admin token
\* or an unknown job name, the request ends at once with status 401 or 400:
\* the invocation has made no upstream call and opened no transaction, and the
\* table is unchanged.
C10_RejectedBeforeStage ==
    [][ \A p \in Procs :
          (~Running(p) /\ inv'[p] # inv[p] /\ BadRequest(inv'[p]))
          => /\ inv'[p].pc = "done"
             /\ inv'[p].status \in {400, 401}
             /\ ~inv'[p].called
             /\ inv'[p].tx = None
             /\ db' = db ]_vars

\* C10's case: a request for discover_markets with a wrong token has been
\* answered 401 while the table holds events.
C10_Witness ==
    \E p \in Procs :
        /\ inv[p].pc = "done"
        /\ inv[p].status = 401
        /\ inv[p].token = Some("wrong")
        /\ inv[p].job = "discover_markets"
        /\ Len(db) >= 1

---------------------------------------------------------------------------
(* The job trigger, the budget, and the stages' loops.                     *)

\* The stage names the trigger is said to accept.
StageNames == {"discover_markets", "hydrate_tokens", "update_prices",
               "forecast_machine", "resolve_markets"}

\* C11: every one of the five stage names, sent with the admin token, is
\* accepted: the response to such a request is never the 400 of an unknown job.
C11_FiveStagesAccepted ==
    \A p \in Procs :
        (/\ inv[p].pc = "done"
         /\ inv[p].token = Some(ADMIN_TOKEN)
         /\ inv[p].job \in StageNames)
        => inv[p].status # 400

\* The places where a loop of a stage stands at an iteration boundary, and the
\* places where an invocation waits for an upstream answer.
LoopHeads == {"filter", "upsert", "hyd", "snap", "fore"}
Awaiting == {"detail", "hyd_detail", "price", "quoted"}

\* C12: in every stage, once an invocation stands at an iteration boundary with
\* more time elapsed than the budget, its next step processes no item: it sends
\* no upstream request and writes no row; it leaves the loop, what it has
\* written is committed as it stands, and the invocation goes on to return its
\* summary (status 200), not an error.
C12_BudgetStopsWork ==
    [][\A p \in Procs :
         (/\ inv[p].pc \in LoopHeads
          /\ inv[p].elapsed > JOB_TIME_BUDGET_SECS
          /\ inv'[p] # inv[p])
         => /\ inv'[p].pc \in {"upsert", "fore", "done"}
            /\ inv'[p].pc \notin Awaiting
            /\ inv'[p].pc # "done" => inv'[p].called = inv[p].called
            /\ Tbl(p)' = Tbl(p)
            /\ inv'[p].pc = "upsert" =>
                 /\ inv[p].pc = "filter"
                 /\ inv'[p].cands = Top(SortDesc(inv[p].cands))
                 /\ inv'[p].used = 0 /\ inv'[p].tx = None
            /\ inv'[p].pc = "fore" =>
                 /\ inv[p].pc = "snap"
                 /\ db' = Tbl(p)
                 /\ inv'[p].snap = inv[p].snap
                 /\ inv'[p].skipped_no_token = inv[p].skipped_no_token
                 /\ inv'[p].fore = 0
            /\ inv'[p].pc = "done" =>
                 /\ inv'[p].status = 200
                 /\ db' = Tbl(p)]_vars

\* An upsert loop stopped by the budget, with a written row and a candidate left.
C12_Witness ==
    \E p \in Procs :
        /\ inv[p].pc = "upsert"
        /\ inv[p].elapsed > JOB_TIME_BUDGET_SECS
        /\ inv[p].i <= Len(inv[p].cands)
        /\ inv[p].used >= 1
        /\ inv[p].dirty

\* C13: a failed fetch of the catalog listing is not raised out of
\* discover_markets: an admitted discover_markets request always ends with the
\* stage's structured result (status 200, with its success flag and counts).
C13_ListingFailureAbsorbed ==
    \A p \in Procs :
        (/\ inv[p].pc = "done"
         /\ inv[p].job = "discover_markets"
         /\ inv[p].token = Some(ADMIN_TOKEN))
        => inv[p].status = 200

\* C15: no stage holds an open write transaction while it waits for a network
\* answer: an invocation waiting for an upstream service has written no row
\* that it has not committed.
C15_NoWriteAcrossNetwork ==
    \A p \in Procs : inv[p].pc \in Awaiting => ~inv[p].dirty

\* The rows of a selection that carry a token, and the committed rows that do.
WithToken(rows) == SelectSeq(rows, LAMBDA r : Truthy(r.v))
Tokened(tbl) == SelectSeq(tbl, LAMBDA e : Truthy(e.yes_token_id))

\* C17: update_prices selects only events that have a yes token, up to the cap:
\* the selection of the snapshot loop holds no tokenless event, and holds
\* min(cap, number of events with a token) events to look up.
C17_SelectsTokenedOnly ==
    \A p \in Procs :
        inv[p].pc \in {"snap", "price", "quoted"}
        => /\ Len(WithToken(inv[p].rows)) = Len(inv[p].rows)
           /\ Len(inv[p].rows) = Min(PRICE_UPDATE_MAX, Len(Tokened(Tbl(p))))

\* C19: in the snapshot loop of update_prices the three counters account for
\* every row iterated: when the loop has gone through i - 1 rows,
\* snapshot_updated + skipped_no_token + skipped_no_pm = i - 1.
C19_CountersAddUp ==
    \A p \in Procs :
        inv[p].pc = "snap"
        => inv[p].snap + inv[p].skipped_no_token + inv[p].skipped_no_pm = inv[p].i - 1

\* A candidate with a usable natural key: a slug, or failing that a market id.
HasNaturalKey(c) == Truthy(c.m.slug) \/ Truthy(MarketId(c.m))
Keyed(cands) == SelectSeq(cands, HasNaturalKey)

\* C18: discovery persists the DISCOVER_LIMIT best-scored candidates among those
\* that pass the filters and have a usable natural key: when the filter loop
\* ends, the keyed candidates that go on to the upsert loop are the best
\* DISCOVER_LIMIT of the keyed candidates, so that a candidate without a key
\* never takes the place of a valid one with a lower score.
C18_KeylessTakesNoPlace ==
    [][\A p \in Procs :
         (inv[p].pc = "filter" /\ inv'[p].pc = "upsert")
         => Keyed(inv'[p].cands) = Top(SortDesc(Keyed(inv[p].cands)))]_vars

---------------------------------------------------------------------------
(* scripts/run_job_once.py: the job runner posts one job to the service    *)
(* and reads the response, again and again while the post raises.  The     *)
(* service is worker 1, serving the runner's requests and nothing else.    *)
(* (A post that times out while the stage still runs is the overlap of the *)
(* specification further down.)                                            *)

\* for attempt in range(4)
RunnerAttempts == 4

\* Tables the runner may find: empty, or as two discoveries have left it.
RunnerTables ==
    { <<>>,
      upsert_event_in_conn(
          upsert_event_in_conn(<<>>, TxtBtc, Some("b"), Some("2"), None),
          TxtBtc, Some("a"), Some("1"), Some("T1")) }

\* JOB_NAME and PM_ADMIN_TOKEN come from the environment.
InitRunner ==
    /\ db \in RunnerTables
    /\ now = 0
    /\ inv = [p \in Serial |-> Fresh]
    /\ hist = NoHist
    /\ est = NoEst
    /\ runner \in [pc : {"health"}, job : JobNames, token : Tokens \ {None},
                   attempt : {0}, posts : {0}]
    /\ ext = NoExt

\* wait_for_health(): the service answers /health in time, or it does not and
\* the runner exits without a post.
RunnerHealthy ==
    /\ runner.pc = "health"
    /\ runner' = [runner EXCEPT !.pc = "post"]
    /\ UNCHANGED <<db, now, inv, hist, est, ext>>

RunnerUnhealthy ==
    /\ runner.pc = "health"
    /\ runner' = [runner EXCEPT !.pc = "failed"]
    /\ UNCHANGED <<db, now, inv, hist, est, ext>>

\* requests.post(url, params, headers): the request the service admits or
\* rejects is the runner's.
Posted(p) ==
    /\ runner.pc = "post"
    /\ inv'[p].job = runner.job
    /\ inv'[p].token = runner.token
    /\ runner' = [runner EXCEPT !.pc = "wait", !.posts = @ + 1]
    /\ UNCHANGED <<hist, est, ext>>

\* The service works on the request while the runner waits.
Serving == runner.pc = "wait" /\ Quiet

\* The response arrives.  raise_for_status() passes and SystemExit(0) leaves
\* the loop (it is no Exception); or it raises, `except Exception` catches it
\* whatever the status, the runner sleeps and the loop goes on; after the last
\* attempt the runner exits with "Job failed after retries".
RunnerResp(p) ==
    /\ runner.pc = "wait"
    /\ inv[p].pc = "done"
    /\ runner' = IF inv[p].status < 400
                 THEN [runner EXCEPT !.pc = "ok"]
                 ELSE [runner EXCEPT !.attempt = @ + 1,
                                     !.pc = IF runner.attempt + 1 < RunnerAttempts
                                            THEN "post" ELSE "failed"]
    /\ UNCHANGED <<db, now, inv, hist, est, ext>>

NextRunner ==
    \/ RunnerHealthy
    \/ RunnerUnhealthy
    \/ \E p \in Serial : Reject(p) /\ Posted(p)
    \/ \E p \in Serial : StartDiscover(p) /\ Posted(p)
    \/ \E p \in Serial : StartHydrate(p) /\ Posted(p)
    \/ \E p \in Serial : StartUpdate(p) /\ Posted(p)
    \/ \E p \in Serial : ListingOk(p) /\ Serving
    \/ \E p \in Serial : ListingFail(p) /\ Serving
    \/ \E p \in Serial : FilterItem(p) /\ Serving
    \/ \E p \in Serial : FilterEnd(p) /\ Serving
    \/ \E p \in Serial : UpsertItem(p) /\ Serving
    \/ \E p \in Serial : DetailResp(p) /\ Serving
    \/ \E p \in Serial : UpsertEnd(p) /\ Serving
    \/ \E p \in Serial : HydrateItem(p) /\ Serving
    \/ \E p \in Serial : HydrateDetail(p) /\ Serving
    \/ \E p \in Serial : HydrateEnd(p) /\ Serving
    \/ \E p \in Serial : SnapItem(p) /\ Serving
    \/ \E p \in Serial : ClobAnswers(p) /\ Serving
    \/ \E p \in Serial : PriceResp(p) /\ Serving
    \/ \E p \in Serial : SnapEnd(p) /\ Serving
    \/ \E p \in Serial : ForeItem(p) /\ Serving
    \/ \E p \in Serial : ForeEnd(p) /\ Serving
    \/ \E p \in Serial : RunnerResp(p)
    \/ Tick /\ Quiet

SpecRunner == InitRunner /\ [][NextRunner]_vars

\* C16: an invocation the service rejects (401, 400) is not retried by the job
\* runner: when the service has answered a post with 401 or 400, that post is
\* the runner's only one.
C16_RejectionNotRetried ==
    \A p \in Procs :
        (inv[p].pc = "done" /\ inv[p].status \in {400, 401}) => runner.posts <= 1

---------------------------------------------------------------------------
(* Two discover_markets invocations that overlap, over the same upstream   *)
(* data: the runner's post times out while the stage runs and the runner   *)
(* posts again, and a second worker of the pool takes the request.         *)

InitOverlap ==
    /\ db = <<>>
    /\ now = 0
    /\ inv = [p \in Pool |-> Fresh]
    /\ hist \in [listing : Catalogs, detail : Details, rows : {<<>>}]
    /\ est = NoEst
    /\ runner = NoRunner
    /\ ext = NoExt

\* A worker takes a discover_markets request while no invocation has ended: the
\* two invocations overlap.
OverlapStart(p) ==
    /\ inv[p].pc = "idle"
    /\ \A q \in Procs : inv[q].pc # "done"
    /\ StartDiscover(p)
    /\ Quiet

\* The next statement of worker p is a write of upsert_event_in_conn.
AtWrite(p) ==
    LET v == inv[p]
        m == v.cands[v.i].m
    IN  \/ v.pc = "detail"
        \/ /\ v.pc = "upsert"
           /\ v.i <= Len(v.cands)
           /\ ~Over(p)
           /\ Truthy(MarketId(m))
           /\ \/ Truthy(extract_yes_token_id(m))
              \/ v.detail_calls >= DISCOVER_DETAIL_MAX
              \/ Cached(v.cache, MarketId(m)[1]) # None

\* The write finds the database locked by the other invocation's uncommitted
\* rows and the wait for the lock runs out: sqlite3.OperationalError, the
\* connection's transaction is rolled back and the request ends with a 500.
Locked(p) ==
    /\ AtWrite(p)
    /\ ~CanWrite(p)
    /\ Set(p, Done(inv[p], 500))
    /\ UNCHANGED <<db, now>>
    /\ Quiet

NextOverlap ==
    \/ \E p \in Pool : OverlapStart(p)
    \/ \E p \in Pool : RerunListing(p)
    \/ \E p \in Pool : FilterItem(p) /\ Quiet
    \/ \E p \in Pool : FilterEnd(p) /\ Quiet
    \/ \E p \in Pool : UpsertItem(p) /\ Quiet
    \/ \E p \in Pool : RerunDetail(p)
    \/ \E p \in Pool : UpsertEnd(p) /\ Quiet
    \/ \E p \in Pool : Locked(p)
    \/ Tick /\ Quiet

SpecOverlap == InitOverlap /\ [][NextOverlap]_vars

\* No two events of tbl have the same slug or the same market id.
OneEventPerKey(tbl) ==
    \A i \in 1..Len(tbl) : \A j \in (i + 1)..Len(tbl) :
        /\ tbl[i].slug = None \/ tbl[i].slug # tbl[j].slug
        /\ tbl[i].gamma_market_id = None
               \/ tbl[i].gamma_market_id # tbl[j].gamma_market_id

\* C14: two overlapping discover_markets invocations over the same upstream
\* data never leave two events for the same natural key and never erase a
\* token: every step leaves the committed table with one event per key and
\* with every token it had.
C14_OverlapKeepsKeysAndTokens ==
    [][OneEventPerKey(db') /\ KeepsTokens(db, db')]_vars

---------------------------------------------------------------------------
(* The token resolver on its own: extract_yes_token_id applied once to a   *)
(* payload.                                                                *)

\* The longest list of outcomes in a payload; an id list may be one longer.
ExtMaxLen == 2

SubIds == <<"t1", "t2", "t3", "t4">>
ListIds == <<"c1", "c2", "c3", "c4", "c5">>
ExtLabels == { TxtYes, TxtNo, <<"T", "R", "U", "E", " ">> }

\* The sub-document at position i: a label, and an id of its own or none.
SubDocs(i) == { Outcome(l, t) : l \in ExtLabels, t \in {None, Some(SubIds[i])} }

\* Lists of up to n sub-documents, of up to n labels, of up to n + 1 ids.
DictLists(n) ==
    UNION { { [kind |-> "dict", items |-> its] :
                its \in { f \in [1..k -> UNION { SubDocs(i) : i \in 1..k }] :
                            \A i \in 1..k : f[i] \in SubDocs(i) } } :
            k \in 1..n }

StrLists(n) ==
    UNION { { [kind |-> "str", items |-> its] : its \in [1..k -> ExtLabels] } :
            k \in 1..n }

IdLists(n) == { [kind |-> "str", items |-> SubSeq(ListIds, 1, k)] : k \in 1..(n + 1) }

JsonText == [kind |-> "text", items |-> <<>>]

\* The direct fields of a payload: absent, empty, or set.
DirectFields == { <<None, None>>, <<Some(""), None>>, <<Some(""), Some("D2")>>,
                  <<Some("D1"), Some("D2")>> }

Payloads(n) ==
    { [NoDoc EXCEPT !.yesTokenId = d[1], !.yes_token_id = d[2], !.tokens = t,
                    !.outcomes = o, !.clobTokenIds = c] :
        d \in DirectFields,
        t \in {None} \cup { Some(l) : l \in DictLists(n) },
        o \in {None, Some(JsonText)} \cup { Some(l) : l \in StrLists(n) },
        c \in {None, Some(JsonText)} \cup { Some(l) : l \in IdLists(n) } }

InitExtract ==
    /\ db = <<>>
    /\ now = 0
    /\ inv = [p \in Serial |-> Fresh]
    /\ hist = NoHist
    /\ est = NoEst
    /\ runner = NoRunner
    /\ ext \in [m : Payloads(ExtMaxLen), yes_tid : {None}, done : {FALSE}]

Extract ==
    /\ ~ext.done
    /\ ext' = [ext EXCEPT !.yes_tid = extract_yes_token_id(ext.m), !.done = TRUE]
    /\ UNCHANGED <<db, now, inv, hist, est, runner>>

NextExtract == Extract

SpecExtract == InitExtract /\ [][NextExtract]_vars

\* The truthy direct yes-token fields of a payload.
DirectIds(m) == { f \in {m.yesTokenId, m.yes_token_id} : Truthy(f) }

\* A label reads yes or true, whatever its case.
IsYes(label) == Lower(Strip(label)) \in { <<"y", "e", "s">>, <<"t", "r", "u", "e">> }

\* The ids a list of outcomes pairs with a yes label: the ids of the labelled
\* sub-document itself, and the id at the label's index in an id list of the
\* same length.
PairedIds(f, ids) ==
    LET n == Len(f.items)
        label(i) == IF f.kind = "dict"
                    THEN OrElseSeq(OrElseSeq(f.items[i].outcome, f.items[i].name),
                                   Some(<<>>))[1]
                    ELSE f.items[i]
        own(i) == IF f.kind = "dict"
                  THEN { t \in {f.items[i].token_id, f.items[i].id} : Truthy(t) }
                  ELSE {}
        byIndex(i) == IF ids # None /\ ids[1].kind # "text" /\ Len(ids[1].items) = n
                      THEN { Some(ids[1].items[i]) }
                      ELSE {}
    IN  IF f.kind = "text" THEN {}
        ELSE UNION { own(i) \cup byIndex(i) : i \in { k \in 1..n : IsYes(label(k)) } }

LabelledIds(m) ==
    UNION { PairedIds(f[1], m.clobTokenIds) : f \in {m.tokens, m.outcomes} \ {None} }

\* C20: extract_yes_token_id returns an id only when the payload has a direct
\* yes-token field or an outcome labelled yes/true; a direct field, when there
\* is one, is what it returns; otherwise the id returned is one paired with a
\* yes/true label (in the same sub-document, or at the same index of an id
\* list of equal length); and a payload with an id list but no such label
\* gives None, never the first id of the list.
C20_YesTokenIsLabelled ==
    ext.done =>
        LET m == ext.m
            r == ext.yes_tid
        IN  /\ DirectIds(m) # {} => r \in DirectIds(m)
            /\ (DirectIds(m) = {} /\ r # None) => r \in LabelledIds(m)
            /\ (DirectIds(m) = {} /\ LabelledIds(m) = {}) => r = None

\* The resolver has returned the second id of an id list, for a yes label at
\* the second place.
C20_Witness ==
    /\ ext.done
    /\ DirectIds(ext.m) = {}
    /\ ext.m.clobTokenIds # None
    /\ ext.yes_tid = Some(ListIds[2])

---------------------------------------------------------------------------
(* The forecast after a price refresh, and the estimator's monotonicity.   *)

\* The machine probability of event e is the one machine_from_pm gives for the
\* price the event has now.
MachineFollowsPrice(e) ==
    e.latest_pm_p # None
    => e.latest_machine_p = ToReal(machine_from_pm(e.latest_pm_p[1]))

\* C21: after an update_prices invocation has returned, every event with a
\* price has the machine probability computed from that price: no event is
\* left with a machine probability derived from a price it no longer has, or
\* with none, also when the time budget runs out during or after the snapshot
\* loop.
C21_ForecastFollowsRefresh ==
    \A p \in Procs :
        (/\ inv[p].pc = "done"
         /\ inv[p].job = "update_prices"
         /\ inv[p].status = 200)
        => \A i \in 1..Len(db) : MachineFollowsPrice(db[i])

\* C22: for a fixed volume24hr compute_machine_p is monotone non-decreasing in
\* crowd_p: the value computed for a crowd price a in [0, 1] is at most the
\* value for every crowd price b in [0, 1] with a <= b, the thresholds 0.90,
\* 0.94, 0.10 and 0.06 included.
C22_MonotoneInCrowd ==
    (est.machine_p # None /\ est.crowd_p >= 0 /\ est.crowd_p <= Scale) =>
        \A b \in CrowdGrid :
            (est.crowd_p <= b /\ b <= Scale)
            => est.machine_p[1] <= compute_machine_p(b, est.volume24hr)

=============================================================================
